---- MODULE Spec2Model ----
(***************************************************************************)
(* Model of the forex-dash price feed (src/services/feed.ts): the          *)
(* PriceFeed object, the WebSockets it creates, its reconnect timeouts,    *)
(* its simulation interval and its per-symbol subscriber sets; and of the  *)
(* Redux store (src/store): the portfolio slice with its placeOrder        *)
(* reducer, the market slice, and the trade handler of Portfolio.tsx.      *)
(*                                                                         *)
(* Prices are JavaScript numbers.  They are modelled in fixed point, one   *)
(* unit = 0.000002 (so that 3200.0 fits a 32-bit integer and five decimal  *)
(* places are 5 units), together with the two non-numbers a price can be   *)
(* in this program: undefined (a missing table entry) and NaN.             *)
(*                                                                         *)
(* A tick is its symbol and its price; its timestamp is left out.          *)
(* Subscriber callbacks do not call back into the feed: they return       *)
(* normally, or throw, or are the processTick of a chart component, which  *)
(* dispatches setLastPrice.  Each event listener and timer callback runs   *)
(* to completion, as one task of the event loop, and is one action.        *)
(***************************************************************************)
EXTENDS Integers, Sequences, FiniteSets, TLC

(***************************************************************************)
(* Bounds of the model.                                                    *)
(***************************************************************************)
MaxSockets == 3        \* WebSockets created in one run
MaxHandles == 2        \* subscribe() calls in one run
MaxSimTicks == 1       \* firings of the simulation interval in one run
MaxMessages == 1       \* inbound messages handled in one run
MaxConnections == 7    \* WebSockets created in one run where no connection opens
MaxOrders == 3         \* orders executed in one run

(***************************************************************************)
(* JavaScript values a price can take.                                     *)
(***************************************************************************)
Num(n) == [t |-> "number", v |-> n]
NaN == [t |-> "NaN", v |-> 0]
undefined == [t |-> "undefined", v |-> 0]

IsPositive(x) == x.t = "number" /\ x.v > 0

\* property lookup obj[k]: undefined for a key the object does not have
Get(obj, k) == IF k \in DOMAIN obj THEN obj[k] ELSE undefined

\* assignment obj[k] = x: creates the key when it is missing
Put(obj, k, x) == [j \in (DOMAIN obj) \cup {k} |-> IF j = k THEN x ELSE obj[j]]

(***************************************************************************)
(* types.ts, constants.ts                                                  *)
(***************************************************************************)
SymbolCode == {"EURUSD", "GBPUSD", "XAUUSD"}

SYMBOLS == <<"EURUSD", "GBPUSD", "ETHUSDT">>

STARTING_PRICES ==
  [k \in {"EURUSD", "GBPUSD", "ETHUSDT"} |->
     IF k = "EURUSD" THEN Num(542500)
     ELSE IF k = "GBPUSD" THEN Num(635000)
     ELSE Num(1600000000)]

(***************************************************************************)
(* feed.ts, module level                                                   *)
(***************************************************************************)
DefaultKey == "d1ehg3pr01qjssrk5gkgd1ehg3pr01qjssrk5gl0"

mapToFinnhub ==
  [k \in SymbolCode |->
     IF k = "EURUSD" THEN "OANDA:EUR_USD"
     ELSE IF k = "GBPUSD" THEN "OANDA:GBP_USD"
     ELSE "OANDA:XAU_USD"]

mapFromFinnhub ==
  [k \in {"OANDA:EUR_USD", "OANDA:GBP_USD", "OANDA:XAU_USD"} |->
     IF k = "OANDA:EUR_USD" THEN "EURUSD"
     ELSE IF k = "OANDA:GBP_USD" THEN "GBPUSD"
     ELSE "XAUUSD"]

\* Object.keys(this.subs), Object.values(mapToFinnhub): insertion order
SubsKeys == <<"EURUSD", "GBPUSD", "XAUUSD">>

maxReconnectAttempts == 5

Callbacks == {"cb1", "cb2"}

\* the symbols the application subscribes to in the runs explored: one that
\* has a seed price in STARTING_PRICES and the one that has none
SubscribedSymbols == {"EURUSD", "XAUUSD"}

NoWs == 0

VARIABLES
  envKey,             \* import.meta.env.VITE_FINNHUB_API_KEY ("" when unset)
  wsCtorThrows,       \* whether `new WebSocket(url)` throws in this runtime
  subs,               \* PriceFeed.subs: symbol -> callbacks in insertion order
  timer,              \* PriceFeed.timer: TRUE while the interval is set
  prices,             \* PriceFeed.prices
  ws,                 \* PriceFeed.ws: index into sockets, NoWs for undefined
  usingWs,            \* PriceFeed.usingWs
  reconnectAttempts,  \* PriceFeed.reconnectAttempts
  isConnected,        \* PriceFeed.isConnected
  sockets,            \* every WebSocket the feed has created, in creation order
  timeouts,           \* number of pending reconnect setTimeout callbacks
  handles,            \* the unsubscribe closures subscribe() has returned
  lastOp,             \* the operation or event that produced this state
  calls,              \* callback invocations made by that operation, in order
  emitted,            \* ticks that operation emitted to the fan-out, in order
  phase,              \* "new", or the last of start()/stop() that was called
  failures,           \* transport failures since the last start() or open
  ticked,             \* symbols for which a live or simulated tick was produced
  simTicks,           \* interval firings so far
  messages,           \* inbound messages so far
  socketCap,          \* WebSockets this run may create (a bound, fixed by Init)
  cash,               \* store.portfolio.cash
  positions,          \* store.portfolio.positions
  trades,             \* store.portfolio.trades, most recent first
  lastPrice,          \* store.market.lastPrice
  lastOrder,          \* the order the last placeOrder or handleTrade was given
  orders,             \* the payloads dispatched with placeOrder, in dispatch order
  activeTab           \* Tabs.activeTab ("none" before the first render)

feedVars == <<subs, timer, prices, ws, usingWs, reconnectAttempts, isConnected>>
envVars == <<envKey, wsCtorThrows, sockets, timeouts, handles>>
histVars == <<lastOp, calls, emitted, phase, failures, ticked, simTicks, messages,
              socketCap>>
ledgerVars == <<cash, positions, trades, lastOrder, orders>>
storeVars == <<cash, positions, trades, lastPrice, lastOrder, orders>>
uiVars == <<activeTab>>
vars == <<envKey, wsCtorThrows, subs, timer, prices, ws, usingWs,
          reconnectAttempts, isConnected, sockets, timeouts, handles,
          lastOp, calls, emitted, phase, failures, ticked, simTicks, messages,
          socketCap, cash, positions, trades, lastPrice, lastOrder, orders,
          activeTab>>

FINNHUB_KEY == IF envKey # "" THEN envKey ELSE DefaultKey

(***************************************************************************)
(* The mutable fields of the feed and of the runtime around it, as one     *)
(* record, so that a handler that calls several methods in sequence is the *)
(* composition of their effects.                                           *)
(***************************************************************************)
F == [timer |-> timer, ws |-> ws, usingWs |-> usingWs,
      reconnectAttempts |-> reconnectAttempts, isConnected |-> isConnected,
      sockets |-> sockets, timeouts |-> timeouts]

SetF(f) ==
  /\ timer' = f.timer
  /\ ws' = f.ws
  /\ usingWs' = f.usingWs
  /\ reconnectAttempts' = f.reconnectAttempts
  /\ isConnected' = f.isConnected
  /\ sockets' = f.sockets
  /\ timeouts' = f.timeouts

Alive(k) == sockets[k].readyState \in {"CONNECTING", "OPEN"}

\* startSim(): the guard and the setInterval; the interval's callback is simTick
startSim(f) == IF f.timer THEN f ELSE [f EXCEPT !.timer = TRUE]

\* new WebSocket(url); this.ws = ws; the four listeners are the Ws* actions
initWs(f) ==
  [f EXCEPT !.sockets = Append(@, [readyState |-> "CONNECTING", failed |-> FALSE,
                                   sent |-> <<>>]),
            !.ws = Len(f.sockets) + 1]

\* WebSocket.close(): a connecting socket is failed (error, then close, are
\* fired later), an open one starts the closing handshake (close is fired
\* later), a closing or closed one is left alone
wsClose(f, k) ==
  IF f.sockets[k].readyState = "CONNECTING"
  THEN [f EXCEPT !.sockets[k].readyState = "CLOSING", !.sockets[k].failed = TRUE]
  ELSE IF f.sockets[k].readyState = "OPEN"
  THEN [f EXCEPT !.sockets[k].readyState = "CLOSING"]
  ELSE f

\* cleanupWs() without `this.ws = undefined`
cleanupWs_keepsHandle(f) ==
  LET g == IF f.ws # NoWs THEN wsClose(f, f.ws) ELSE f
  IN [g EXCEPT !.usingWs = FALSE, !.isConnected = FALSE]

cleanupWs(f) ==
  LET g == IF f.ws # NoWs THEN [wsClose(f, f.ws) EXCEPT !.ws = NoWs] ELSE f
  IN [g EXCEPT !.usingWs = FALSE, !.isConnected = FALSE]

\* a handleReconnect() that schedules another attempt however many have failed
handleReconnect_noCap(f) ==
  [f EXCEPT !.reconnectAttempts = @ + 1, !.timeouts = @ + 1]

\* a handleReconnect() that gives up after the last attempt
handleReconnect_givesUp(f) ==
  IF f.reconnectAttempts < maxReconnectAttempts
  THEN [f EXCEPT !.reconnectAttempts = @ + 1, !.timeouts = @ + 1]
  ELSE f

handleReconnect(f) ==
  IF f.reconnectAttempts < maxReconnectAttempts
  THEN [f EXCEPT !.reconnectAttempts = @ + 1, !.timeouts = @ + 1]
  ELSE startSim(f)

getConnectionStatus ==
  [isConnected |-> isConnected, usingWebSocket |-> usingWs,
   reconnectAttempts |-> reconnectAttempts]

\* the listeners initWs() registers on socket k
onOpen(f, k) ==
  [f EXCEPT !.isConnected = TRUE, !.reconnectAttempts = 0,
            !.sockets[k].sent = @ \o [i \in 1..Len(SubsKeys) |-> mapToFinnhub[SubsKeys[i]]]]

onError(f) == handleReconnect([f EXCEPT !.isConnected = FALSE])

onClose(f) == handleReconnect(cleanupWs([f EXCEPT !.isConnected = FALSE]))

\* the record of an operation: its name and arguments (symbol, callback,
\* handle or socket), and whether the operation before it had the same name
Op(name, symbol, cb, h) ==
  [name |-> name, symbol |-> symbol, cb |-> cb, h |-> h, again |-> lastOp.name = name]

NoCalls ==
  /\ calls' = <<>>
  /\ emitted' = <<>>

(***************************************************************************)
(* PriceFeed.start()                                                       *)
(***************************************************************************)
start ==
  /\ IF FINNHUB_KEY # "" /\ ws = NoWs
     THEN IF wsCtorThrows
          THEN SetF(startSim(F))
          ELSE /\ Len(sockets) < socketCap
               /\ SetF([initWs(F) EXCEPT !.usingWs = TRUE])
     ELSE SetF(startSim(F))
  /\ lastOp' = Op("start", "", "", 0)
  /\ phase' = "started"
  /\ failures' = 0
  /\ NoCalls
  /\ UNCHANGED <<envKey, wsCtorThrows, subs, prices, handles, ticked, simTicks,
                 messages, socketCap>>
  /\ UNCHANGED <<storeVars, uiVars>>

(***************************************************************************)
(* PriceFeed.stop()                                                        *)
(***************************************************************************)
stop ==
  /\ LET f1 == IF timer THEN [F EXCEPT !.timer = FALSE] ELSE F
         f2 == IF f1.ws # NoWs THEN cleanupWs(f1) ELSE f1
     IN SetF(f2)
  /\ lastOp' = Op("stop", "", "", 0)
  /\ phase' = "stopped"
  /\ NoCalls
  /\ UNCHANGED <<envKey, wsCtorThrows, subs, prices, handles, failures, ticked,
                 simTicks, messages, socketCap>>
  /\ UNCHANGED <<storeVars, uiVars>>

(***************************************************************************)
(* Events of WebSocket k.                                                  *)
(***************************************************************************)
\* the connection is established: readyState OPEN, 'open' is fired
WsOpen(k) ==
  /\ sockets[k].readyState = "CONNECTING"
  /\ SetF(onOpen([F EXCEPT !.sockets[k].readyState = "OPEN"], k))
  /\ lastOp' = Op("open", "", "", k)
  /\ failures' = 0
  /\ NoCalls
  /\ UNCHANGED <<envKey, wsCtorThrows, subs, prices, handles, phase, ticked,
                 simTicks, messages, socketCap>>
  /\ UNCHANGED <<storeVars, uiVars>>

\* the transport fails the connection: readyState CLOSED, 'error' and then
\* 'close' are fired in the same task
WsFail(k) ==
  /\ Alive(k)
  /\ SetF(onClose(onError([F EXCEPT !.sockets[k].readyState = "CLOSED"])))
  /\ lastOp' = Op("fail", "", "", k)
  /\ failures' = failures + 1
  /\ NoCalls
  /\ UNCHANGED <<envKey, wsCtorThrows, subs, prices, handles, phase, ticked,
                 simTicks, messages, socketCap>>
  /\ UNCHANGED <<storeVars, uiVars>>

\* the server closes an open connection cleanly: only 'close' is fired
WsServerClose(k) ==
  /\ sockets[k].readyState = "OPEN"
  /\ SetF(onClose([F EXCEPT !.sockets[k].readyState = "CLOSED"]))
  /\ lastOp' = Op("serverClose", "", "", k)
  /\ NoCalls
  /\ UNCHANGED <<envKey, wsCtorThrows, subs, prices, handles, phase, failures,
                 ticked, simTicks, messages, socketCap>>
  /\ UNCHANGED <<storeVars, uiVars>>

\* a close() the feed asked for completes: 'error' first when the socket was
\* still connecting, then 'close'
WsClosed(k) ==
  /\ sockets[k].readyState = "CLOSING"
  /\ LET f0 == [F EXCEPT !.sockets[k].readyState = "CLOSED"]
     IN SetF(onClose(IF sockets[k].failed THEN onError(f0) ELSE f0))
  /\ lastOp' = Op("closed", "", "", k)
  /\ NoCalls
  /\ UNCHANGED <<envKey, wsCtorThrows, subs, prices, handles, phase, failures,
                 ticked, simTicks, messages, socketCap>>
  /\ UNCHANGED <<storeVars, uiVars>>

(***************************************************************************)
(* The callback handleReconnect() gave to setTimeout.  When the WebSocket  *)
(* constructor throws the exception is uncaught and nothing changes.       *)
(***************************************************************************)
reconnectTimeout ==
  /\ timeouts > 0
  /\ LET f0 == [F EXCEPT !.timeouts = @ - 1]
     IN IF ~isConnected /\ ~wsCtorThrows
        THEN /\ Len(sockets) < socketCap
             /\ SetF(initWs(f0))
        ELSE SetF(f0)
  /\ lastOp' = Op("reconnectTimeout", "", "", 0)
  /\ NoCalls
  /\ UNCHANGED <<envKey, wsCtorThrows, subs, prices, handles, phase, failures,
                 ticked, simTicks, messages, socketCap>>
  /\ UNCHANGED <<storeVars, uiVars>>

InitFeed ==
  /\ subs = [s \in SymbolCode |-> <<>>]
  /\ timer = FALSE
  /\ prices = STARTING_PRICES
  /\ ws = NoWs
  /\ usingWs = FALSE
  /\ reconnectAttempts = 0
  /\ isConnected = FALSE
  /\ sockets = <<>>
  /\ timeouts = 0
  /\ handles = <<>>
  /\ lastOp = [name |-> "new", symbol |-> "", cb |-> "", h |-> 0, again |-> FALSE]
  /\ calls = <<>>
  /\ emitted = <<>>
  /\ phase = "new"
  /\ failures = 0
  /\ ticked = {}
  /\ simTicks = 0
  /\ messages = 0

(***************************************************************************)
(* JavaScript arithmetic on prices.                                        *)
(***************************************************************************)
\* Number(x) of a JSON value: a number, a numeral in a string, null (0);
\* a missing property or any other string is NaN
ToNumber(raw) ==
  IF raw.k \in {"number", "numeral"} THEN Num(raw.v)
  ELSE IF raw.k = "null" THEN Num(0)
  ELSE NaN

\* x * m / 1000000 without leaving 32 bits (|m| <= 2000)
MulMillionths(x, m) == (x \div 1000000) * m + ((x % 1000000) * m) \div 1000000

\* last * (1 + r * vol), r = d / 100 and vol = volN / 10000
NextPrice(last, d, volN) ==
  IF last.t = "number" THEN Num(last.v + MulMillionths(last.v, d * volN)) ELSE NaN

\* Number(x.toFixed(5)): five decimal places are 5 units
ToFixed5(x) ==
  IF x.t # "number" THEN NaN
  ELSE IF x.v >= 0 THEN Num(((x.v + 2) \div 5) * 5)
  ELSE Num(0 - (((0 - x.v) + 2) \div 5) * 5)

\* const vol = symbol === 'XAUUSD' ? 0.004 : 0.0003, in ten-thousandths
Vol(symbol) == IF symbol = "XAUUSD" THEN 40 ELSE 3

\* values of Math.random() - 0.5, in hundredths
Draws == {-50, 25}

(***************************************************************************)
(* The subscriber sets: a JavaScript Set iterates in insertion order.      *)
(***************************************************************************)
SetHas(seq, x) == \E i \in 1..Len(seq) : seq[i] = x

\* an array push in place of Set.add: no check for an element already there
SetAdd_push(seq, x) == Append(seq, x)

SetAdd(seq, x) == IF SetHas(seq, x) THEN seq ELSE Append(seq, x)

\* Set.clear() in place of Set.delete(cb)
SetDelete_clear(seq, x) == <<>>

SetDelete(seq, x) == SelectSeq(seq, LAMBDA y : y # x)

\* a fan-out that walks the subscribers from the newest to the oldest
\* the callbacks the chart components subscribe: ChartPanel.processTick and
\* LargeChart.processTick, which dispatch setLastPrice({symbol, price: tick.price})
ProcessTick == "processTick"

ProcessTickLarge == "processTickLarge"

Dispatches(cb) == cb \in {ProcessTick, ProcessTickLarge}

\* what the callbacks invoked in cs, in order from the i-th, make of lastPrice
RECURSIVE processTicks(_, _, _)
processTicks(last, cs, i) ==
  IF i > Len(cs) THEN last
  ELSE processTicks(IF Dispatches(cs[i].cb)
                    THEN Put(last, cs[i].tick.symbol, cs[i].tick.price)
                    ELSE last,
                    cs, i + 1)

\* a callback whose body throws, the others return normally
ThrowingCallback == "cbThrows"

Throws(cb) == cb = ThrowingCallback

\* how many callbacks of a set forEach reaches: a throw leaves the loop
Reached(set) ==
  IF \E i \in 1..Len(set) : Throws(set[i])
  THEN CHOOSE i \in 1..Len(set) :
         /\ Throws(set[i])
         /\ \A j \in 1..(i - 1) : ~Throws(set[j])
  ELSE Len(set)

forEachSub_reversed(symbol, tick, src, n) ==
  [i \in 1..Reached(subs[symbol]) |->
     [cb |-> subs[symbol][Len(subs[symbol]) + 1 - i], tick |-> tick, src |-> src,
      n |-> n]]

\* this.subs[symbol].forEach(cb => cb(tick)), as the n-th emission of a handler
forEachSub(symbol, tick, src, n) ==
  [i \in 1..Reached(subs[symbol]) |->
     [cb |-> subs[symbol][i], tick |-> tick, src |-> src, n |-> n]]

\* the running effect of a handler on prices and on the subscribers
\* thrown: a callback threw and the exception is on its way out of the handler
D0 == [prices |-> prices, calls |-> <<>>, emitted |-> <<>>, ticked |-> ticked,
       thrown |-> FALSE]

SetD(d) ==
  /\ prices' = d.prices
  /\ calls' = d.calls
  /\ emitted' = d.emitted
  /\ ticked' = d.ticked

\* store a price, build the tick and fan it out
emit(d, symbol, stored, tick, src) ==
  [prices |-> Put(d.prices, symbol, stored),
   calls |-> d.calls \o forEachSub(symbol, tick, src, Len(d.emitted) + 1),
   emitted |-> Append(d.emitted, tick),
   ticked |-> d.ticked \cup {symbol},
   thrown |-> \E i \in 1..Len(subs[symbol]) : Throws(subs[symbol][i])]

(***************************************************************************)
(* PriceFeed.subscribe(symbol, cb) and the closure it returns              *)
(***************************************************************************)
subscribe(symbol, cb) ==
  /\ Len(handles) < MaxHandles
  /\ subs' = [subs EXCEPT ![symbol] = SetAdd(@, cb)]
  /\ calls' = <<[cb |-> cb, tick |-> [symbol |-> symbol, price |-> Get(prices, symbol)],
                 src |-> "replay", n |-> 0]>>
  /\ emitted' = <<>>
  /\ handles' = IF Throws(cb) THEN handles
                ELSE Append(handles, [symbol |-> symbol, cb |-> cb, invoked |-> FALSE])
  /\ lastOp' = Op("subscribe", symbol, cb, IF Throws(cb) THEN 0 ELSE Len(handles) + 1)
  /\ UNCHANGED <<envKey, wsCtorThrows, timer, prices, ws, usingWs, reconnectAttempts,
                 isConnected, sockets, timeouts, phase, failures, ticked, simTicks,
                 messages, socketCap>>
  /\ lastPrice' = processTicks(lastPrice, calls', 1)
  /\ UNCHANGED <<ledgerVars, uiVars>>

unsubscribe(h) ==
  /\ subs' = [subs EXCEPT ![handles[h].symbol] = SetDelete(@, handles[h].cb)]
  /\ handles' = [handles EXCEPT ![h].invoked = TRUE]
  /\ lastOp' = Op("unsubscribe", handles[h].symbol, handles[h].cb, h)
  /\ NoCalls
  /\ UNCHANGED <<envKey, wsCtorThrows, timer, prices, ws, usingWs, reconnectAttempts,
                 isConnected, sockets, timeouts, phase, failures, ticked, simTicks,
                 messages, socketCap>>
  /\ UNCHANGED <<storeVars, uiVars>>

(***************************************************************************)
(* The callback startSim() gave to setInterval; r[symbol] is the value of  *)
(* Math.random() - 0.5 drawn for that symbol.                              *)
(***************************************************************************)
RECURSIVE simSymbols(_, _, _)
simSymbols(d, i, r) ==
  IF i > Len(SubsKeys) \/ d.thrown THEN d
  ELSE LET symbol == SubsKeys[i]
           last == Get(d.prices, symbol)
           next == NextPrice(last, r[symbol], Vol(symbol))
           tick == [symbol |-> symbol, price |-> ToFixed5(next)]
       IN simSymbols(emit(d, symbol, next, tick, "sim"), i + 1, r)

simTick ==
  /\ timer
  /\ simTicks < MaxSimTicks
  /\ \E r \in [SymbolCode -> Draws] : SetD(simSymbols(D0, 1, r))
  /\ simTicks' = simTicks + 1
  /\ lastOp' = Op("simTick", "", "", 0)
  /\ UNCHANGED <<envKey, wsCtorThrows, subs, timer, ws, usingWs, reconnectAttempts,
                 isConnected, sockets, timeouts, handles, phase, failures, messages,
                 socketCap>>
  /\ lastPrice' = processTicks(lastPrice, calls', 1)
  /\ UNCHANGED <<ledgerVars, uiVars>>

(***************************************************************************)
(* The 'message' listener of socket k.  A message is what JSON.parse makes *)
(* of ev.data: "unparseable" when it throws, else the type and the data.   *)
(***************************************************************************)
\* d.p of a trade entry: the number 1.09000, or a string that is no numeral
RawPrices == {[k |-> "number", v |-> 545000], [k |-> "string", v |-> 0]}

ExternalIds == {"OANDA:EUR_USD", "OANDA:XAU_USD", "BINANCE:BTCUSDT"}

NullEntry == [s |-> "", p |-> [k |-> "null", v |-> 0], isNull |-> TRUE]

Entries ==
  {NullEntry} \cup
  {[s |-> s, p |-> p, isNull |-> FALSE] : s \in ExternalIds, p \in RawPrices}

\* the inbound messages tried: every shape, with up to two trade entries
Messages ==
  {[type |-> t, data |-> <<>>, isArray |-> FALSE] : t \in {"unparseable", "error", "trade"}}
  \cup {[type |-> "trade", data |-> <<>>, isArray |-> TRUE]}
  \cup {[type |-> "trade", data |-> <<e>>, isArray |-> TRUE] : e \in Entries}
  \cup {[type |-> "trade", data |-> <<e1, e2>>, isArray |-> TRUE] :
          e1 \in Entries \ {NullEntry}, e2 \in Entries}

\* msg.data.forEach(...); reading d.s of null throws, and so may a callback:
\* either leaves the loop for the catch clause with the earlier entries
\* already handled
RECURSIVE onTrades(_, _, _)
onTrades(d, data, i) ==
  IF i > Len(data) \/ d.thrown THEN d
  ELSE IF data[i].isNull THEN d
  ELSE IF data[i].s \notin DOMAIN mapFromFinnhub THEN onTrades(d, data, i + 1)
  ELSE LET s == mapFromFinnhub[data[i].s]
           tick == [symbol |-> s, price |-> ToNumber(data[i].p)]
       IN onTrades(emit(d, s, tick.price, tick, "live"), data, i + 1)

onMessage(d, msg) ==
  IF msg.type = "unparseable" THEN d
  ELSE IF msg.type = "trade" /\ msg.isArray THEN onTrades(d, msg.data, 1)
  ELSE d

WsMessage(k) ==
  /\ sockets[k].readyState = "OPEN"
  /\ messages < MaxMessages
  /\ \E msg \in Messages : SetD(onMessage(D0, msg))
  /\ messages' = messages + 1
  /\ lastOp' = Op("message", "", "", k)
  /\ UNCHANGED <<envKey, wsCtorThrows, subs, timer, ws, usingWs, reconnectAttempts,
                 isConnected, sockets, timeouts, handles, phase, failures, simTicks,
                 socketCap>>
  /\ lastPrice' = processTicks(lastPrice, calls', 1)
  /\ UNCHANGED <<ledgerVars, uiVars>>

(***************************************************************************)
(* The Redux store.  Money amounts of the store are in hundredths (108 is  *)
(* 1.08); an average price is an exact fraction, as the division of        *)
(* portfolioSlice.ts line 51 rarely leaves a whole number of hundredths.   *)
(* A trade is its id, symbol, qty, price and side; its timestamp is left   *)
(* out, and nanoid() is the sequence number of the order.                  *)
(***************************************************************************)
Abs(x) == IF x < 0 THEN 0 - x ELSE x

\* Math.sign
Sign(x) == IF x > 0 THEN 1 ELSE IF x < 0 THEN 0 - 1 ELSE 0

RECURSIVE GCD(_, _)
GCD(a, b) == IF b = 0 THEN a ELSE GCD(b, a % b)

\* the fraction n / d (d > 0) in lowest terms
Rat(n, d) == LET g == GCD(Abs(n), d) IN [num |-> n \div g, den |-> d \div g]

SeedCash == 10000000   \* cash: 100000

\* positions[symbol] === undefined
NoPosition == [symbol |-> "", qty |-> 0, avgPrice |-> Rat(0, 1), defined |-> FALSE]

Position(symbol, qty, avgPrice) ==
  [symbol |-> symbol, qty |-> qty, avgPrice |-> avgPrice, defined |-> TRUE]

NoOrder == [symbol |-> "", qty |-> 0, price |-> 0, dispatched |-> FALSE]

\* placeOrder.prepare: the payload becomes a trade
prepare(symbol, qty, price, id) ==
  [id |-> id, symbol |-> symbol, qty |-> Abs(qty), price |-> price,
   side |-> IF qty >= 0 THEN "BUY" ELSE "SELL"]

\* a sign that forgets the side of the trade
tradeSign_alwaysBuy(trade) == 1

\* const sign = trade.side === 'BUY' ? 1 : -1
tradeSign(trade) == IF trade.side = "BUY" THEN 1 ELSE 0 - 1

\* a close that keeps the position object, with quantity 0
closePosition_keepsObject(existing) == Position(existing.symbol, 0, existing.avgPrice)

\* newQty === 0: state.positions[trade.symbol] = undefined
closePosition(existing) == NoPosition

\* a blend that weighs the two prices equally
blendPosition_plainMean(existing, trade, prevQty, q) ==
  Position(existing.symbol, prevQty + q,
           Rat(existing.avgPrice.num + trade.price * existing.avgPrice.den,
               existing.avgPrice.den * 2))

\* the quantity keeps its sign: totalCost / (|prevQty| + |q|)
blendPosition(existing, trade, prevQty, q) ==
  Position(existing.symbol, prevQty + q,
           Rat(existing.avgPrice.num * Abs(prevQty)
                 + trade.price * Abs(q) * existing.avgPrice.den,
               existing.avgPrice.den * (Abs(prevQty) + Abs(q))))

\* a flip that carries the old average over
flipPosition_keepsAvg(existing, trade, newQty) ==
  Position(existing.symbol, newQty, existing.avgPrice)

\* the quantity changes its sign: existing.avgPrice = trade.price
flipPosition(existing, trade, newQty) ==
  Position(existing.symbol, newQty, Rat(trade.price, 1))

\* a reducer that replaces the position by the trade
nextPosition_replaces(existing, trade, q) ==
  IF q = 0 /\ existing.defined THEN NoPosition
  ELSE Position(trade.symbol, q, Rat(trade.price, 1))

\* placeOrder.reducer, lines 38-59: what becomes of positions[trade.symbol]
nextPosition(existing, trade, q) ==
  IF ~existing.defined
  THEN Position(trade.symbol, q, Rat(trade.price, 1))
  ELSE LET prevQty == existing.qty
           newQty == prevQty + q
       IN IF newQty = 0 THEN closePosition(existing)
          ELSE IF Sign(prevQty) = Sign(newQty)
          THEN blendPosition(existing, trade, prevQty, q)
          ELSE flipPosition(existing, trade, newQty)

\* Array.push in place of Array.unshift
unshift_push(seq, x) == Append(seq, x)

\* state.trades.unshift(trade)
unshift(seq, x) == <<x>> \o seq

\* a reducer that books the trade and leaves the cash alone
reducer_cashUntouched(state, trade) ==
  LET sign == tradeSign(trade)
      existing == state.positions[trade.symbol]
      q == trade.qty * sign
  IN [cash |-> state.cash,
      positions |-> [state.positions EXCEPT
                       ![trade.symbol] = nextPosition(existing, trade, q)],
      trades |-> unshift(state.trades, trade)]

\* a reducer that writes the new position under every instrument
reducer_allInstruments(state, trade) ==
  LET sign == tradeSign(trade)
      cost == trade.price * trade.qty * sign
      existing == state.positions[trade.symbol]
      q == trade.qty * sign
  IN [cash |-> state.cash - cost,
      positions |-> [s \in DOMAIN state.positions |->
                       nextPosition(existing, trade, q)],
      trades |-> unshift(state.trades, trade)]

\* placeOrder.reducer
reducer(state, trade) ==
  LET sign == tradeSign(trade)
      cost == trade.price * trade.qty * sign
      existing == state.positions[trade.symbol]
      q == trade.qty * sign
  IN [cash |-> state.cash - cost,
      positions |-> [state.positions EXCEPT
                       ![trade.symbol] = nextPosition(existing, trade, q)],
      trades |-> unshift(state.trades, trade)]

\* a reducer handed the positions the store was created with
Portfolio_stale ==
  [cash |-> cash, positions |-> [s \in SymbolCode |-> NoPosition], trades |-> trades]

\* the state of the portfolio slice the store hands to the reducer
Portfolio == [cash |-> cash, positions |-> positions, trades |-> trades]

SetPortfolio(state) ==
  /\ cash' = state.cash
  /\ positions' = state.positions
  /\ trades' = state.trades

feedState == <<envKey, wsCtorThrows, subs, timer, prices, ws, usingWs,
               reconnectAttempts, isConnected, sockets, timeouts, handles,
               phase, failures, ticked, simTicks, messages, socketCap>>

\* dispatch(placeOrder({symbol, qty, price}))
placeOrder(symbol, qty, price) ==
  /\ Len(trades) < MaxOrders
  /\ SetPortfolio(reducer(Portfolio, prepare(symbol, qty, price, Len(trades) + 1)))
  /\ lastOrder' = [symbol |-> symbol, qty |-> qty, price |-> price, dispatched |-> TRUE]
  /\ orders' = Append(orders, [symbol |-> symbol, qty |-> qty, price |-> price])
  /\ lastOp' = Op("placeOrder", symbol, "", 0)
  /\ NoCalls
  /\ UNCHANGED <<feedState, lastPrice, uiVars>>

\* dispatch(setLastPrice({symbol, price}))
setLastPrice(symbol, price) ==
  /\ lastPrice' = Put(lastPrice, symbol, price)
  /\ lastOp' = Op("setLastPrice", symbol, "", 0)
  /\ NoCalls
  /\ UNCHANGED <<feedState, ledgerVars, uiVars>>

\* Portfolio.handleTrade(side) with the form holding formSymbol and formQty:
\* last[form.symbol] ?? 0, and the order is dispatched when that is > 0
handleTrade(side, formSymbol, formQty) ==
  LET qty == IF side = "BUY" THEN Abs(formQty) ELSE 0 - Abs(formQty)
      last == Get(lastPrice, formSymbol)
      price == IF last.t = "undefined" THEN Num(0) ELSE last
  IN /\ Len(trades) < MaxOrders
     /\ IF IsPositive(price)
        THEN /\ SetPortfolio(reducer(Portfolio,
                                     prepare(formSymbol, qty, price.v, Len(trades) + 1)))
             /\ lastOrder' = [symbol |-> formSymbol, qty |-> qty, price |-> price.v,
                              dispatched |-> TRUE]
             /\ orders' = Append(orders, [symbol |-> formSymbol, qty |-> qty,
                                          price |-> price.v])
        ELSE /\ UNCHANGED <<cash, positions, trades, orders>>
             /\ lastOrder' = [symbol |-> formSymbol, qty |-> qty, price |-> 0,
                              dispatched |-> FALSE]
     /\ lastOp' = Op("handleTrade", formSymbol, "", 0)
     /\ NoCalls
     /\ UNCHANGED <<feedState, lastPrice, uiVars>>

\* a market value that counts units and forgets the price
marketValue_units(p, last) == IF p.defined THEN Num(p.qty) ELSE Num(0)

\* p ? p.qty * (last[sym] ?? 0) : 0
marketValue(p, last) ==
  IF ~p.defined THEN Num(0)
  ELSE IF last.t = "undefined" THEN Num(0)
  ELSE IF last.t = "NaN" THEN NaN
  ELSE Num(p.qty * last.v)

\* portfolioMetrics.totalValue: the reduce over EURUSD, GBPUSD, XAUUSD
totalValue ==
  LET value(sym) == marketValue(positions[sym], Get(lastPrice, sym))
  IN IF \E sym \in {"EURUSD", "GBPUSD", "XAUUSD"} : value(sym).t = "NaN"
     THEN NaN
     ELSE Num(value("EURUSD").v + value("GBPUSD").v + value("XAUUSD").v)

\* portfolioMetrics.equity = cash + totalValue
equity == IF totalValue.t = "NaN" THEN NaN ELSE Num(cash + totalValue.v)

\* portfolioSlice initialState and marketSlice initialState
InitStore ==
  /\ cash = SeedCash
  /\ positions = [s \in SymbolCode |-> NoPosition]
  /\ trades = <<>>
  /\ lastPrice = [s \in {"EURUSD", "GBPUSD", "ETHUSD"} |-> undefined]
  /\ lastOrder = NoOrder
  /\ orders = <<>>

\* nothing is rendered yet
InitUi == activeTab = "none"

(***************************************************************************)
(* The feed over a healthy transport: connections open and carry messages, *)
(* none fails, and the application subscribes and unsubscribes.            *)
(***************************************************************************)
Init ==
  /\ InitFeed
  /\ InitStore
  /\ InitUi
  /\ envKey = ""
  /\ wsCtorThrows = FALSE
  /\ socketCap = MaxSockets

Next ==
  \/ start
  \/ \E symbol \in SubscribedSymbols, cb \in Callbacks : subscribe(symbol, cb)
  \/ \E h \in 1..Len(handles) : unsubscribe(h)
  \/ simTick
  \/ \E k \in 1..Len(sockets) : WsOpen(k)
  \/ \E k \in 1..Len(sockets) : WsMessage(k)

Spec == Init /\ [][Next]_vars

(***************************************************************************)
(* The connection lifecycle: start, stop, socket events and reconnect      *)
(* timeouts, with no subscriber and no traffic.                            *)
(***************************************************************************)
InitLifecycle ==
  /\ InitFeed
  /\ InitStore
  /\ InitUi
  /\ envKey \in {"", "k"}
  /\ wsCtorThrows \in BOOLEAN
  /\ socketCap = MaxSockets

NextLifecycle ==
  \/ start
  \/ stop
  \/ \E k \in 1..Len(sockets) : WsOpen(k)
  \/ \E k \in 1..Len(sockets) : WsFail(k)
  \/ \E k \in 1..Len(sockets) : WsServerClose(k)
  \/ \E k \in 1..Len(sockets) : WsClosed(k)
  \/ reconnectTimeout

SpecLifecycle == InitLifecycle /\ [][NextLifecycle]_vars

(***************************************************************************)
(* A transport that never succeeds: no connection ever opens, each one     *)
(* fails (or is closed by the feed itself), and nobody calls stop().       *)
(***************************************************************************)
InitFailing ==
  /\ InitFeed
  /\ InitStore
  /\ InitUi
  /\ envKey \in {"", "k"}
  /\ wsCtorThrows \in BOOLEAN
  /\ socketCap = MaxConnections

NextFailing ==
  \/ start
  \/ \E k \in 1..Len(sockets) : WsFail(k)
  \/ \E k \in 1..Len(sockets) : WsClosed(k)
  \/ reconnectTimeout

SpecFailing == InitFailing /\ [][NextFailing]_vars

(***************************************************************************)
(* The same transport with start() called once, a subscriber, and the      *)
(* generator's interval.  The runtime fires every event it owes: a         *)
(* connection that cannot open fails, a close the feed asked for           *)
(* completes, a timeout and an interval that are set fire.                 *)
(***************************************************************************)
NextFallback ==
  \/ phase = "new" /\ start
  \/ subscribe("EURUSD", "cb1")
  \/ \E k \in 1..Len(sockets) : WsFail(k)
  \/ \E k \in 1..Len(sockets) : WsClosed(k)
  \/ reconnectTimeout
  \/ simTick

\* the interval startSim() set fires: the step that simTick takes, told by
\* its count
intervalFires == timer /\ simTicks < MaxSimTicks /\ simTicks' = simTicks + 1

SpecFallback ==
  /\ InitFailing
  /\ [][NextFallback]_vars
  /\ WF_vars(\E k \in 1..Len(sockets) : WsFail(k))
  /\ WF_vars(\E k \in 1..Len(sockets) : WsClosed(k))
  /\ WF_vars(reconnectTimeout)
  /\ WF_simTicks(intervalFires)

(***************************************************************************)
(* The feed with a subscriber whose callback throws.                       *)
(***************************************************************************)
NextThrowing ==
  \/ start
  \/ \E symbol \in SubscribedSymbols, cb \in {"cb1", ThrowingCallback} :
       subscribe(symbol, cb)
  \/ simTick
  \/ \E k \in 1..Len(sockets) : WsOpen(k)
  \/ \E k \in 1..Len(sockets) : WsMessage(k)

SpecThrowing == Init /\ [][NextThrowing]_vars

(***************************************************************************)
(* The feed in a runtime whose WebSocket constructor throws: start() falls *)
(* back to the generator at once.                                          *)
(***************************************************************************)
InitSimulated ==
  /\ InitFeed
  /\ InitStore
  /\ InitUi
  /\ envKey = ""
  /\ wsCtorThrows = TRUE
  /\ socketCap = MaxSockets

NextSimulated ==
  \/ start
  \/ \E symbol \in SubscribedSymbols, cb \in Callbacks : subscribe(symbol, cb)
  \/ \E h \in 1..Len(handles) : unsubscribe(h)
  \/ simTick

SpecSimulated == InitSimulated /\ [][NextSimulated]_vars

(***************************************************************************)
(* The ledger alone: orders dispatched straight to the store.              *)
(***************************************************************************)
TradedSymbols == {"EURUSD", "XAUUSD"}

OrderQuantities == {-3, -2, 0, 1, 2}

\* no price, 1.08, 1.09, and a price two orders at which exceed the seed cash
OrderPrices == {0, 108, 109, 4000000}

InitLedger ==
  /\ InitFeed
  /\ InitStore
  /\ InitUi
  /\ envKey = ""
  /\ wsCtorThrows = FALSE
  /\ socketCap = MaxSockets

NextLedger ==
  \E symbol \in TradedSymbols, qty \in OrderQuantities, price \in OrderPrices :
    placeOrder(symbol, qty, price)

SpecLedger == InitLedger /\ [][NextLedger]_vars

(***************************************************************************)
(* The Portfolio component: last prices arrive in the market slice and the *)
(* user presses Buy or Sell.                                               *)
(***************************************************************************)
FormQuantities == {0, 1, 2}

LastPrices == {Num(108), NaN}

NextPortfolio ==
  \/ \E symbol \in TradedSymbols, price \in LastPrices : setLastPrice(symbol, price)
  \/ \E side \in {"BUY", "SELL"}, symbol \in TradedSymbols, qty \in FormQuantities :
       handleTrade(side, symbol, qty)

SpecPortfolio == InitLedger /\ [][NextPortfolio]_vars

(***************************************************************************)
(* The Portfolio component while the quoted prices move between two        *)
(* values.                                                                 *)
(***************************************************************************)
QuotedPrices == {Num(108), Num(109)}

TradedQuantities == {1, 2}

NextEquity ==
  \/ \E symbol \in TradedSymbols, price \in QuotedPrices : setLastPrice(symbol, price)
  \/ \E side \in {"BUY", "SELL"}, symbol \in TradedSymbols, qty \in TradedQuantities :
       handleTrade(side, symbol, qty)

SpecEquity == InitLedger /\ [][NextEquity]_vars

(***************************************************************************)
(* The application: App renders Tabs, whose dashboard tab holds a          *)
(* ChartPanel for each of EURUSD, GBPUSD, XAUUSD and the LargeChart of the *)
(* selected symbol (EURUSD), and whose portfolio tab holds Portfolio.      *)
(* Tabs renders the active tab only: the charts subscribe when the         *)
(* dashboard is shown and unsubscribe when it is left.  A price goes from  *)
(* the feed to the store and into an order as it is, in the feed's unit.   *)
(***************************************************************************)
\* the subscribe effects of the dashboard, in the order React runs them
Charts ==
  <<[symbol |-> "EURUSD", cb |-> ProcessTick],
    [symbol |-> "GBPUSD", cb |-> ProcessTick],
    [symbol |-> "XAUUSD", cb |-> ProcessTick],
    [symbol |-> "EURUSD", cb |-> ProcessTickLarge]>>

\* feed.subscribe(symbol, processTick) of the charts from the i-th on
RECURSIVE mountCharts(_, _)
mountCharts(sb, i) ==
  IF i > Len(Charts) THEN sb
  ELSE mountCharts([sb EXCEPT ![Charts[i].symbol] = SetAdd(@, Charts[i].cb)], i + 1)

\* unsub() of the charts from the i-th on
RECURSIVE unmountCharts(_, _)
unmountCharts(sb, i) ==
  IF i > Len(Charts) THEN sb
  ELSE unmountCharts([sb EXCEPT ![Charts[i].symbol] = SetDelete(@, Charts[i].cb)], i + 1)

\* the dashboard tab is rendered: at the first render, or on a click on its
\* button; each chart subscribes and is replayed the last known price
showDashboard ==
  /\ activeTab # "dashboard"
  /\ activeTab' = "dashboard"
  /\ subs' = mountCharts(subs, 1)
  /\ calls' = [i \in 1..Len(Charts) |->
                 [cb |-> Charts[i].cb,
                  tick |-> [symbol |-> Charts[i].symbol,
                            price |-> Get(prices, Charts[i].symbol)],
                  src |-> "replay", n |-> 0]]
  /\ emitted' = <<>>
  /\ lastPrice' = processTicks(lastPrice, calls', 1)
  /\ lastOp' = Op("showDashboard", "", "", 0)
  /\ UNCHANGED <<envKey, wsCtorThrows, timer, prices, ws, usingWs, reconnectAttempts,
                 isConnected, sockets, timeouts, handles, phase, failures, ticked,
                 simTicks, messages, socketCap>>
  /\ UNCHANGED ledgerVars

\* a click on the portfolio tab: the charts unmount and unsubscribe
showPortfolio ==
  /\ activeTab = "dashboard"
  /\ activeTab' = "portfolio"
  /\ subs' = unmountCharts(subs, 1)
  /\ lastOp' = Op("showPortfolio", "", "", 0)
  /\ NoCalls
  /\ UNCHANGED <<envKey, wsCtorThrows, timer, prices, ws, usingWs, reconnectAttempts,
                 isConnected, sockets, timeouts, handles, phase, failures, ticked,
                 simTicks, messages, socketCap>>
  /\ UNCHANGED storeVars

NextTrading ==
  \/ showDashboard
  \/ showPortfolio
  \/ activeTab # "none" /\ phase = "new" /\ start
  \/ \E k \in 1..Len(sockets) : WsOpen(k)
  \/ \E k \in 1..Len(sockets) : WsMessage(k)
  \/ /\ activeTab = "portfolio"
     /\ \E side \in {"BUY", "SELL"}, symbol \in TradedSymbols, qty \in FormQuantities :
          handleTrade(side, symbol, qty)

SpecTrading == InitLedger /\ [][NextTrading]_vars

(***************************************************************************)
(* Properties of the connection lifecycle.                                 *)
(***************************************************************************)
LiveSockets == {k \in 1..Len(sockets) : Alive(k)}

Started == timer \/ LiveSockets # {}

\* C1: the simulation interval is never running while a WebSocket the feed
\* created is open or connecting.
C1_OneSourceAtATime == ~(timer /\ LiveSockets # {})

\* C2: start() on a feed that is already started (a connection open or
\* connecting, or the generator running) creates no connection, starts no
\* timer and leaves the connection status as it was.
C2_StartIdempotent ==
  [][(lastOp'.name = "start" /\ Started) =>
       UNCHANGED <<timer, ws, sockets, timeouts, usingWs, isConnected,
                   reconnectAttempts>>]_vars

\* C3: from the return of stop() until the next start(), no connection is
\* opened and no subscriber receives a tick from the live source or from the
\* generator.
C3_QuietAfterStop ==
  [][(phase = "stopped" /\ phase' = "stopped") =>
       /\ Len(sockets') = Len(sockets)
       /\ \A i \in 1..Len(calls') : calls'[i].src = "replay"]_vars

\* C4: once maxReconnectAttempts connections in a row have failed with no
\* open in between, the status reports usingWebSocket = false and no
\* connection is created except by start().
C4_ReconnectCap ==
  [][failures >= maxReconnectAttempts =>
       /\ getConnectionStatus.usingWebSocket = FALSE
       /\ lastOp'.name # "start" => Len(sockets') = Len(sockets)]_vars

\* C5: stop() leaves no connection handle and no generator timer, and a
\* stop() that follows a stop(), or that is called on a feed never started,
\* changes nothing.
C5_StopIdempotent ==
  [][lastOp'.name = "stop" =>
       /\ ~timer'
       /\ ws' = NoWs
       /\ (lastOp.name = "stop" \/ phase = "new") =>
            UNCHANGED <<subs, timer, prices, ws, usingWs, reconnectAttempts,
                        isConnected, sockets, timeouts, handles>>]_vars

\* a second stop() in a row, on a feed that had a connection
C5_Witness ==
  /\ lastOp.name = "stop"
  /\ lastOp.again
  /\ Len(sockets) > 0

(***************************************************************************)
(* Properties of subscribe, unsubscribe and the fan-out.                   *)
(***************************************************************************)
IsEmission == lastOp.name \in {"message", "simTick"}

\* the invocations an operation made for its n-th emitted tick
CallsOf(cs, n) == SelectSeq(cs, LAMBDA c : c.n = n)

\* C6: subscribe(symbol, cb) invokes cb exactly once, with a tick for that
\* symbol carrying the last known price, which is the symbol's positive seed
\* price as long as no tick was produced for the symbol.
C6_ReplayOnSubscribe ==
  lastOp.name = "subscribe" =>
    /\ Len(calls) = 1
    /\ calls[1].cb = lastOp.cb
    /\ calls[1].tick.symbol = lastOp.symbol
    /\ calls[1].tick.price = Get(prices, lastOp.symbol)
    /\ lastOp.symbol \notin ticked => IsPositive(calls[1].tick.price)

C9_HandleOnce ==
  [][(lastOp'.name = "unsubscribe" /\ handles[lastOp'.h].invoked) =>
       subs' = subs]_vars

EachSubscriberOnce(cs, em, sb) ==
  \A n \in 1..Len(em) : \A i \in 1..Len(sb[em[n].symbol]) :
    Len(SelectSeq(cs, LAMBDA c : c.n = n /\ c.cb = sb[em[n].symbol][i])) = 1

C11_FailureIsolation ==
  /\ \A n \in 1..Len(emitted) :
       \A i \in 1..Len(subs[emitted[n].symbol]) :
         \E c \in 1..Len(calls) :
           /\ calls[c].n = n
           /\ calls[c].cb = subs[emitted[n].symbol][i]
           /\ calls[c].tick = emitted[n]
  /\ lastOp.name = "simTick" => Len(emitted) = Len(SubsKeys)

(***************************************************************************)
(* Properties of the ledger.                                               *)
(***************************************************************************)
\* the step is an executed order
Executed == lastOp'.name \in {"placeOrder", "handleTrade"} /\ lastOrder'.dispatched

\* the position the executed order found for its instrument
Existing == positions[lastOrder'.symbol]

\* the position the executed order left for its instrument
Resulting == positions'[lastOrder'.symbol]

\* C12: a Position entry is stored for an instrument if and only if its
\* quantity is not zero; no Position with qty = 0 is ever stored.
C12_PositionIffNonZero ==
  \A s \in SymbolCode : positions[s].defined <=> positions[s].qty # 0

\* C13: every executed order changes cash by exactly -(signedQty * price),
\* whatever the cash at hand.
C13_CashDelta ==
  [][Executed => cash' = cash - lastOrder'.qty * lastOrder'.price]_vars

\* a BUY was executed that the cash did not cover
C13_Witness == lastOrder.dispatched /\ lastOrder.qty > 0 /\ cash < 0

\* C14: placeOrder with a price <= 0 leaves cash, positions and trades as
\* they were.
C14_RejectsNonPositivePrice ==
  [][lastOp'.name = "placeOrder" /\ lastOrder'.price <= 0
       => UNCHANGED <<cash, positions, trades>>]_vars

\* C15: an order of quantity 0 entered through the trade form leaves cash,
\* positions and trades as they were.
C15_RejectsZeroQuantity ==
  [][lastOp'.name = "handleTrade" /\ lastOrder'.qty = 0
       => UNCHANGED <<cash, positions, trades>>]_vars

\* (prevAvg*|prevQty| + price*|signedQty|) / (|prevQty| + |signedQty|)
BlendedAverage(prevAvg, prevQty, price, signedQty) ==
  Rat(prevAvg.num * Abs(prevQty) + price * Abs(signedQty) * prevAvg.den,
      prevAvg.den * (Abs(prevQty) + Abs(signedQty)))

\* C16: an order that opens a position from flat, or increases a position in
\* its own direction, leaves quantity prevQty + signedQty and the blended
\* average; from flat that average is the order's price.
C16_BlendedAverage ==
  [][Executed /\ lastOrder'.qty # 0
       => /\ Existing.qty = 0
             => /\ Resulting.defined
                /\ Resulting.qty = lastOrder'.qty
                /\ Resulting.avgPrice = Rat(lastOrder'.price, 1)
          /\ Existing.qty # 0 /\ Sign(lastOrder'.qty) = Sign(Existing.qty)
             => /\ Resulting.defined
                /\ Resulting.qty = Existing.qty + lastOrder'.qty
                /\ Resulting.avgPrice =
                     BlendedAverage(Existing.avgPrice, Existing.qty,
                                    lastOrder'.price, lastOrder'.qty)]_vars

\* BUY 2 @ 1.08 then BUY 1 @ 1.09: quantity 3 at (2*1.08 + 1*1.09)/3
C16_Witness ==
  /\ Len(trades) = 2
  /\ positions["EURUSD"] = Position("EURUSD", 3, [num |-> 325, den |-> 3])

\* C17: an order that takes a position through zero to the opposite sign
\* leaves quantity prevQty + signedQty and the order's price as the average.
C17_DirectionFlip ==
  [][Executed /\ Existing.defined /\ Existing.qty # 0
       /\ Existing.qty + lastOrder'.qty # 0
       /\ Sign(Existing.qty + lastOrder'.qty) # Sign(Existing.qty)
       => /\ Resulting.defined
          /\ Resulting.qty = Existing.qty + lastOrder'.qty
          /\ Resulting.avgPrice = Rat(lastOrder'.price, 1)]_vars

\* long 2 @ 1.08, SELL 3 @ 1.09: quantity -1 at 1.09, cash up by 3 * 1.09
C17_Witness ==
  /\ Len(trades) = 2
  /\ trades[2] = [id |-> 1, symbol |-> "EURUSD", qty |-> 2, price |-> 108, side |-> "BUY"]
  /\ lastOrder = [symbol |-> "EURUSD", qty |-> 0 - 3, price |-> 109, dispatched |-> TRUE]
  /\ positions["EURUSD"] = Position("EURUSD", 0 - 1, [num |-> 109, den |-> 1])
  /\ cash = SeedCash - 2 * 108 + 3 * 109

\* C18: an order whose signed quantity is the negative of the position's
\* quantity removes the position, and an order that then finds no position
\* opens one at its own price.
C18_ExactClose ==
  [][Executed
       => /\ Existing.defined /\ lastOrder'.qty = 0 - Existing.qty
             => Resulting = NoPosition
          /\ ~Existing.defined /\ lastOrder'.qty # 0
             => Resulting = Position(lastOrder'.symbol, lastOrder'.qty,
                                     Rat(lastOrder'.price, 1))]_vars

\* long 2 @ 1.08, SELL 2 @ 1.09 closes; BUY 1 @ 1.08 then opens afresh at 1.08
C18_Witness ==
  /\ Len(trades) = 3
  /\ trades[3] = [id |-> 1, symbol |-> "EURUSD", qty |-> 2, price |-> 108, side |-> "BUY"]
  /\ trades[2] = [id |-> 2, symbol |-> "EURUSD", qty |-> 2, price |-> 109, side |-> "SELL"]
  /\ positions["EURUSD"] = Position("EURUSD", 1, [num |-> 108, den |-> 1])

\* C19: every executed order puts one trade at the front of the log, with
\* qty = |signedQty|, side BUY iff signedQty >= 0, the order's symbol and
\* price; the trades recorded before follow it unchanged.
C19_TradeLog ==
  [][Executed
       => /\ Len(trades') = Len(trades) + 1
          /\ Tail(trades') = trades
          /\ Head(trades').qty = Abs(lastOrder'.qty)
          /\ Head(trades').side = (IF lastOrder'.qty >= 0 THEN "BUY" ELSE "SELL")
          /\ Head(trades').symbol = lastOrder'.symbol
          /\ Head(trades').price = lastOrder'.price
          /\ \A i \in 1..Len(trades) : Head(trades').id # trades[i].id]_vars

\* three orders, the last a SELL, the log newest first
C19_Witness ==
  /\ Len(trades) = 3
  /\ trades[1].side = "SELL" /\ trades[1].id = 3
  /\ trades[2].id = 2
  /\ trades[3].side = "BUY" /\ trades[3].id = 1

\* C20: a live message with an invalid trade entry invokes no subscriber
\* and changes no last known price, so that every callback a message causes
\* carries a positive number, and so does every price a message stores.
C20_InvalidMessageDiscarded ==
  [][lastOp'.name = "message"
       => /\ \A i \in 1..Len(calls') : IsPositive(calls'[i].tick.price)
          /\ \A s \in SymbolCode :
               Get(prices', s) # Get(prices, s) => IsPositive(Get(prices', s))]_vars

(***************************************************************************)
(* Properties of connecting, of the generator and of the instrument set.   *)
(***************************************************************************)
\* the feed's current connection is open
Live == ws # NoWs /\ sockets[ws].readyState = "OPEN"

\* C21: on every connection that has opened, exactly one subscribe request
\* was sent for each instrument of the registry (SYMBOLS), and nothing else.
C21_SubscribeOnOpen ==
  \A k \in 1..Len(sockets) :
    sockets[k].readyState = "OPEN" =>
      /\ Len(sockets[k].sent) = Len(SYMBOLS)
      /\ \A i \in 1..Len(SYMBOLS) :
           /\ SYMBOLS[i] \in DOMAIN mapToFinnhub
           /\ Cardinality({j \in 1..Len(sockets[k].sent) :
                             sockets[k].sent[j] = mapToFinnhub[SYMBOLS[i]]}) = 1

\* C23: with no credential configured, no connection is ever attempted and
\* start() starts the generator.
C23_NoCredentialSimulates ==
  envKey = "" =>
    /\ sockets = <<>>
    /\ phase = "started" => timer

\* C25: whenever the feed's connection is open, getConnectionStatus()
\* reports isConnected = true, usingWebSocket = true, reconnectAttempts = 0.
C25_StatusWhenLive ==
  Live => getConnectionStatus =
            [isConnected |-> TRUE, usingWebSocket |-> TRUE, reconnectAttempts |-> 0]

\* C22: every price a simulated tick carries, and every last known price the
\* generator has stored, is strictly positive.
C22_SimulatedPricesPositive ==
  lastOp.name = "simTick" =>
    /\ \A n \in 1..Len(emitted) : IsPositive(emitted[n].price)
    /\ \A i \in 1..Len(SubsKeys) : IsPositive(Get(prices, SubsKeys[i]))

\* C28: an interval of the generator emits a tick for exactly the instruments
\* that have a subscriber, and leaves the last known price of every other
\* instrument as it was.
C28_GeneratorSkipsUnsubscribed ==
  [][lastOp'.name = "simTick" =>
       /\ \A s \in SymbolCode :
            subs[s] # <<>> <=> \E n \in 1..Len(emitted') : emitted'[n].symbol = s
       /\ \A s \in SymbolCode :
            subs[s] = <<>> => Get(prices', s) = Get(prices, s)]_vars

\* the orders os, from the i-th, applied one at a time to a ledger
RECURSIVE Replay(_, _, _)
Replay(state, os, i) ==
  IF i > Len(os) THEN state
  ELSE Replay(reducer(state, prepare(os[i].symbol, os[i].qty, os[i].price, i)),
              os, i + 1)

C27_ReductionKeepsAverage ==
  [][Executed /\ Existing.defined /\ Existing.qty # 0
       /\ Existing.avgPrice.num > 0 /\ lastOrder'.price > 0
       /\ Sign(lastOrder'.qty) = 0 - Sign(Existing.qty)
       /\ Abs(lastOrder'.qty) < Abs(Existing.qty)
       => /\ Resulting.defined
          /\ Resulting.qty = Existing.qty + lastOrder'.qty
          /\ Resulting.avgPrice = Existing.avgPrice]_vars

\* the set of the elements of a sequence
Range(seq) == {seq[i] : i \in 1..Len(seq)}

\* C29: SYMBOLS, STARTING_PRICES, the feed's subscriber table, price table
\* and identifier mappings, the ledger's positions and the last-price map all
\* have the SymbolCode enumeration as their key set.
C29_OneInstrumentSet ==
  /\ Range(SYMBOLS) = SymbolCode
  /\ DOMAIN STARTING_PRICES = SymbolCode
  /\ DOMAIN subs = SymbolCode
  /\ Range(SubsKeys) = SymbolCode
  /\ DOMAIN prices = SymbolCode
  /\ DOMAIN mapToFinnhub = SymbolCode
  /\ {mapFromFinnhub[x] : x \in DOMAIN mapFromFinnhub} = SymbolCode
  /\ DOMAIN positions = SymbolCode
  /\ DOMAIN lastPrice = SymbolCode

\* something is under way: the generator runs, a reconnect is pending, or a
\* connection is open, connecting or closing
Busy ==
  \/ timer
  \/ timeouts > 0
  \/ \E k \in 1..Len(sockets) : sockets[k].readyState # "CLOSED"

\* C26: when start() was called, stop() is not, and every connection fails,
\* the feed is never left with nothing under way, and it eventually runs the
\* generator and delivers a simulated tick.
C26_FallbackLiveness ==
  /\ [](phase = "started" => Busy)
  /\ (phase = "started") ~> (timer /\ simTicks > 0)

\* the fifth failed attempt started the generator, which ticked to a subscriber
C26_Witness ==
  /\ timer
  /\ reconnectAttempts = maxReconnectAttempts
  /\ Len(sockets) > 1
  /\ lastOp.name = "simTick"
  /\ \E i \in 1..Len(calls) : calls[i].src = "sim" /\ calls[i].cb = "cb1"

\* C30: an order submitted through the trade form carries the price of the
\* most recent tick the feed has produced for its instrument, which on the
\* live path is the last known price the feed holds for it (stated for
\* orders of a quantity other than 0 and latest ticks with a positive price).
C30_OrderAtLatestTick ==
  [][lastOp'.name = "handleTrade" /\ lastOrder'.dispatched /\ lastOrder'.qty # 0
       /\ IsPositive(Get(prices, lastOrder'.symbol))
       => Num(lastOrder'.price) = Get(prices, lastOrder'.symbol)]_vars

\* C31: the reconnect attempt counter is never below 0 and never above the
\* maximum of 5 attempts.
C31_AttemptsBounded == 0 <= reconnectAttempts /\ reconnectAttempts <= 5

\* the counter stands at the maximum after a connection failed
C31_Witness ==
  /\ reconnectAttempts = 5
  /\ lastOp.name = "fail"
  /\ failures > 0

\* C32: at any time at most one WebSocket the feed created is open or
\* connecting.
C32_OneConnection == Cardinality(LiveSockets) <= 1

\* C33: a connection failure reported as an error event followed by a close
\* event, while attempts remain, raises reconnectAttempts by exactly 1 and
\* schedules exactly one reconnect.
C33_OneAttemptPerFailure ==
  [][lastOp'.name = "fail" /\ reconnectAttempts < maxReconnectAttempts =>
       /\ reconnectAttempts' = reconnectAttempts + 1
       /\ timeouts' = timeouts + 1]_vars

\* the signed quantity of a trade of the log: +qty for BUY, -qty for SELL
SignedQty(trade) == IF trade.side = "BUY" THEN trade.qty ELSE 0 - trade.qty

RECURSIVE SumCost(_, _)
\* the sum of price * signed quantity over the first n trades of the log
SumCost(log, n) ==
  IF n = 0 THEN 0 ELSE SumCost(log, n - 1) + log[n].price * SignedQty(log[n])

RECURSIVE SumQty(_, _, _)
\* the sum of the signed quantities of the first n trades of the log in symbol
SumQty(log, symbol, n) ==
  IF n = 0 THEN 0
  ELSE SumQty(log, symbol, n - 1)
         + (IF log[n].symbol = symbol THEN SignedQty(log[n]) ELSE 0)

\* C34: cash is the seed cash minus the sum, over all trades in the log, of
\* price * qty * (+1 for BUY, -1 for SELL).
C34_CashConservation == cash = SeedCash - SumCost(trades, Len(trades))

\* purchases and sales at positive prices have moved the cash
C34_Witness ==
  /\ Len(trades) = MaxOrders
  /\ \E i, j \in 1..Len(trades) :
       /\ trades[i].side = "BUY" /\ trades[i].qty > 0 /\ trades[i].price > 0
       /\ trades[j].side = "SELL" /\ trades[j].price > 0
  /\ cash # SeedCash

\* C35: for every instrument the signed quantity of its position, 0 when
\* there is no position, is the sum of the signed quantities of the trades in
\* the log for that instrument.
C35_PositionMatchesLog ==
  \A s \in SymbolCode :
    (IF positions[s].defined THEN positions[s].qty ELSE 0)
      = SumQty(trades, s, Len(trades))

\* a position built by several trades, one of them a sale
C35_Witness ==
  \E s \in SymbolCode :
    /\ positions[s].defined
    /\ positions[s].qty # 0
    /\ \E i, j \in 1..Len(trades) :
         /\ i # j
         /\ trades[i].symbol = s /\ trades[j].symbol = s
         /\ trades[i].side = "SELL" /\ trades[j].side = "BUY" /\ trades[j].qty > 0

\* C36: an order on one instrument leaves the position of every other
\* instrument as it was, and an update of a last known price leaves cash,
\* positions and the trade log as they were.
C36_Frame ==
  [][/\ (lastOp'.name = "handleTrade" /\ lastOrder'.dispatched =>
          \A s \in SymbolCode \ {lastOrder'.symbol} : positions'[s] = positions[s])
     /\ (lastOp'.name = "setLastPrice" => UNCHANGED <<cash, positions, trades>>)]_vars

\* an order was executed on one instrument while another one was held, after
\* last known prices had been delivered for both
C36_Witness ==
  /\ lastOp.name = "handleTrade"
  /\ lastOrder.dispatched
  /\ lastOrder.qty # 0
  /\ \E s \in SymbolCode \ {lastOrder.symbol} :
       positions[s].defined /\ positions[s].qty # 0 /\ IsPositive(Get(lastPrice, s))

\* C37: an order of a quantity other than 0, executed at the last known
\* price of its instrument, leaves equity (cash plus the sum over the held
\* positions of quantity * last price) as it was.
C37_EquityUnchanged ==
  [][lastOp'.name = "handleTrade" /\ lastOrder'.dispatched /\ lastOrder'.qty # 0
       /\ Num(lastOrder'.price) = Get(lastPrice, lastOrder'.symbol)
       => equity' = equity]_vars

\* an order reversed a position whose instrument had been quoted at another
\* price since it was opened, and equity is not the seed cash
C37_Witness ==
  /\ lastOp.name = "handleTrade"
  /\ lastOrder.dispatched
  /\ Len(trades) >= 2
  /\ positions[lastOrder.symbol].defined
  /\ positions[lastOrder.symbol].qty * lastOrder.qty > 0
  /\ Abs(lastOrder.qty) > Abs(positions[lastOrder.symbol].qty)
  /\ equity.t = "number"
  /\ equity.v # SeedCash

\* C38: the price replayed to a callback registered right after an interval
\* of the generator is the price carried by the tick that interval emitted
\* for the instrument (stated for ticks with a positive price).
C38_ReplayIsLastTick ==
  [][lastOp.name = "simTick" /\ lastOp'.name = "subscribe" =>
       \A n \in 1..Len(emitted) :
         emitted[n].symbol = lastOp'.symbol /\ IsPositive(emitted[n].price) =>
           calls'[1].tick.price = emitted[n].price]_vars

====
